---------------------------- MODULE Spec2Model ----------------------------
(***************************************************************************)
(* Model of the two sample-config skill scripts of Overture:               *)
(*   skills/testing-utils/test-generator.py        (TestGenerator, main)   *)
(*   plugins/code-quality/skills/static-analysis/analyzer.py               *)
(*                                                     (analyze_file, main) *)
(*                                                                         *)
(* Text is a sequence of lines, every line a sequence of one-character     *)
(* strings standing for the line followed by "\n".  A path string is the   *)
(* sequence of the segments between its "/" separators, every segment a    *)
(* sequence of characters ("./a.py" is << <<".">>, <<"a",".","p","y">> >>).*)
(* A source text is abstracted to what ast.parse makes of it: a syntax     *)
(* error, or the definition nodes of its tree.                             *)
(***************************************************************************)
EXTENDS Integers, Sequences, FiniteSets, TLC

VARIABLES
    tool,          \* "analyzer" | "test-generator" (the two CLIs) | "TestGenerator" (the class used as a library)
    argv,          \* sys.argv[1:]: the path strings given on the command line (library: the one path passed)
    disk,          \* the file system: a set of entries [path, kind, text]
    config,        \* TestGenerator.config
    pc,            \* position of the run
    path,          \* target / source_path: the Path object built from the argument
    source,        \* the text read from source_path
    functions,     \* the FunctionDef nodes found by ast.walk
    test_content,  \* the document generate_test_file builds
    results,       \* the analyzer's list of records
    stdout,        \* the lines printed on standard output
    error,         \* the exception that ended the run, or "none"
    status         \* the exit status, or "running"

vars == <<tool, argv, disk, config, pc, path, source, functions, test_content,
          results, stdout, error, status>>

-----------------------------------------------------------------------------
(* Bounds of the model *)

\* the largest number of definition nodes in a source file
MaxNodes == 3

\* the largest number of entries below the working directory
MaxEntries == 3

-----------------------------------------------------------------------------
(* Characters and the literal texts of the two scripts *)

Q == "\""

BS == "\\"

None == "None"

EmptyLine == <<>>

HeaderOpen == <<Q, Q, Q, "T", "e", "s", "t", "s", " ", "f", "o", "r", " ">>

TripleQuote == <<Q, Q, Q>>

ImportLine == <<"i", "m", "p", "o", "r", "t", " ", "p", "y", "t", "e", "s", "t">>

ImportKw == <<"i", "m", "p", "o", "r", "t", " ">>

DefKw == <<"d", "e", "f", " ">>

DefEnd == <<"(", ")", ":">>

Indent == <<" ", " ", " ", " ">>

TodoText == <<"#", " ", "T", "O", "D", "O", ":", " ", "I", "m", "p", "l", "e", "m", "e", "n", "t", " ", "t", "e", "s", "t">>

PassKw == <<"p", "a", "s", "s">>

TestPrefix == <<"t", "e", "s", "t", "_">>

SufBasic == <<"_", "b", "a", "s", "i", "c">>

SufEdge == <<"_", "e", "d", "g", "e", "_", "c", "a", "s", "e", "s">>

SufError == <<"_", "e", "r", "r", "o", "r", "_", "h", "a", "n", "d", "l", "i", "n", "g">>

DescBasic == <<"B", "a", "s", "i", "c", " ", "f", "u", "n", "c", "t", "i", "o", "n", "a", "l", "i", "t", "y", " ", "t", "e", "s", "t">>

DescEdge == <<"E", "d", "g", "e", " ", "c", "a", "s", "e", " ", "h", "a", "n", "d", "l", "i", "n", "g">>

DescError == <<"E", "r", "r", "o", "r", " ", "h", "a", "n", "d", "l", "i", "n", "g", " ", "t", "e", "s", "t">>

GenUsageLine == <<"U", "s", "a", "g", "e", ":", " ", "t", "e", "s", "t", "-", "g", "e", "n", "e", "r", "a", "t", "o", "r", ".", "p", "y", " ", "<", "s", "o", "u", "r", "c", "e", "_", "f", "i", "l", "e", ">">>

AnUsageLine == <<"U", "s", "a", "g", "e", ":", " ", "a", "n", "a", "l", "y", "z", "e", "r", ".", "p", "y", " ", "<", "f", "i", "l", "e", "_", "o", "r", "_", "d", "i", "r", "e", "c", "t", "o", "r", "y", ">">>

PySuffix == <<".", "p", "y">>

\* s starts with the characters p
StartsWith(s, p) == Len(s) >= Len(p) /\ SubSeq(s, 1, Len(p)) = p

\* s ends with the characters p
EndsWith(s, p) == Len(s) >= Len(p) /\ SubSeq(s, Len(s) - Len(p) + 1, Len(s)) = p

\* s without its first n characters
Drop(s, n) == SubSeq(s, n + 1, Len(s))

-----------------------------------------------------------------------------
(* pathlib.Path *)

Dot == <<".">>

\* Path(arg): pathlib drops the empty segments (repeated and trailing
\* separators) and the "." segments of a relative path string
PathOf(arg) == SelectSeq(arg, LAMBDA seg : seg # <<>> /\ seg # Dot)

\* str(p): the segments joined by "/", "." for the path without segments
PathStr(p) == IF p = <<>> THEN <<Dot>> ELSE p

\* p.name: the final segment
PathName(p) == IF p = <<>> THEN <<>> ELSE p[Len(p)]

\* p / name
Child(p, name) == Append(p, name)

\* p.is_file()
is_file(p) == \E e \in disk : e.path = p /\ e.kind = "file"

\* p.is_dir(): the working directory, or an entry that is a directory
is_dir(p) == p = <<>> \/ \E e \in disk : e.path = p /\ e.kind = "dir"

-----------------------------------------------------------------------------
(* Source texts and their syntax trees *)

\* the function names of the model: two public names and a private one
FuncNames == {<<"f">>, <<"g">>, <<"_", "h">>}

\* what a definition node can be: a def, an async def, a class
NodeShapes ==
    {[kind |-> "FunctionDef", name |-> n] : n \in FuncNames}
        \cup {[kind |-> "AsyncFunctionDef", name |-> <<"f">>],
              [kind |-> "ClassDef", name |-> <<"C">>]}

RECURSIVE Ancestors(_, _)
\* node i of tree t and the nodes that enclose it, the Module (0) included
Ancestors(t, i) == IF i = 0 THEN {0} ELSE {i} \cup Ancestors(t, t[i].parent)

RECURSIVE Trees(_)
\* the trees of at most n definition nodes, in source order: node i is
\* [kind, name, parent], its parent the Module (0) or a node that is still
\* open where i starts
Trees(n) ==
    IF n = 0 THEN {<<>>}
    ELSE LET S == Trees(n - 1)
         IN  S \cup UNION {
                 {Append(t, [kind |-> sh.kind, name |-> sh.name, parent |-> p]) :
                      sh \in NodeShapes, p \in Ancestors(t, Len(t))}
                 : t \in {s \in S : Len(s) = n - 1}}

\* a file's text: malformed, or the text of a well-formed module
SourceTexts ==
    {[malformed |-> TRUE, defs |-> <<>>]}
        \cup {[malformed |-> FALSE, defs |-> t] : t \in Trees(MaxNodes)}

\* ast.iter_child_nodes(node): the children of node i, in source order
iter_child_nodes(t, i) ==
    SelectSeq([k \in 1..Len(t) |-> k], LAMBDA k : t[k].parent = i)

RECURSIVE walk_from(_, _)
\* ast.walk: todo is a queue; pop its head, queue the head's children, yield it
walk_from(t, todo) ==
    IF todo = <<>> THEN <<>>
    ELSE <<Head(todo)>> \o walk_from(t, Tail(todo) \o iter_child_nodes(t, Head(todo)))

\* ast.walk(tree): every node, breadth first from the Module
walk(t) == walk_from(t, <<0>>)

\* isinstance against both def kinds: async defs are collected too
IsFunctionDef_WithAsync(t, i) == i # 0 /\ t[i].kind \in {"FunctionDef", "AsyncFunctionDef"}

\* isinstance(node, ast.FunctionDef): the Module and the other kinds are not
IsFunctionDef(t, i) == i # 0 /\ t[i].kind = "FunctionDef"

\* [node for node in ast.walk(tree) if isinstance(node, ast.FunctionDef)]
FunctionDefs(t) ==
    LET found == SelectSeq(walk(t), LAMBDA i : IsFunctionDef(t, i))
    IN  [k \in 1..Len(found) |-> [name |-> t[found[k]].name, lineno |-> found[k]]]

-----------------------------------------------------------------------------
(* TestGenerator *)

\* the dict without keys
EmptyDict == [k \in {} |-> None]

\* d.get(key, default)
Get(d, key, default) == IF key \in DOMAIN d THEN d[key] ELSE default

\* the truth value Python gives a flag: None and False are false
Truthy(v) == v = "True"

\* the configurations: no "generation" section, or one with the two flags
Configs ==
    {EmptyDict}
        \cup {[generation |-> [include_edge_cases |-> e, include_error_cases |-> r]] :
                  e \in {"True", "False"}, r \in {"True", "False"}}

\* the configuration main() builds
MainConfig == [generation |-> [include_edge_cases |-> "True", include_error_cases |-> "True"]]

\* startswith("_")
IsPrivate(name) == StartsWith(name, <<"_">>)

\* _generate_test_cases with the two flags read the wrong way round
generate_test_cases_FlagsSwapped(cfg, func) ==
    <<[name |-> TestPrefix \o func.name \o SufBasic, description |-> DescBasic]>>
        \o (IF Truthy(Get(Get(cfg, "generation", EmptyDict), "include_error_cases", None))
            THEN <<[name |-> TestPrefix \o func.name \o SufEdge, description |-> DescEdge]>>
            ELSE <<>>)
        \o (IF Truthy(Get(Get(cfg, "generation", EmptyDict), "include_edge_cases", None))
            THEN <<[name |-> TestPrefix \o func.name \o SufError, description |-> DescError]>>
            ELSE <<>>)

\* _generate_test_cases with the error case named like the edge case
generate_test_cases_SameSuffix(cfg, func) ==
    <<[name |-> TestPrefix \o func.name \o SufBasic, description |-> DescBasic]>>
        \o (IF Truthy(Get(Get(cfg, "generation", EmptyDict), "include_edge_cases", None))
            THEN <<[name |-> TestPrefix \o func.name \o SufEdge, description |-> DescEdge]>>
            ELSE <<>>)
        \o (IF Truthy(Get(Get(cfg, "generation", EmptyDict), "include_error_cases", None))
            THEN <<[name |-> TestPrefix \o func.name \o SufEdge, description |-> DescError]>>
            ELSE <<>>)

\* _generate_test_cases: the basic case, then the cases the flags enable
generate_test_cases(cfg, func) ==
    <<[name |-> TestPrefix \o func.name \o SufBasic, description |-> DescBasic]>>
        \o (IF Truthy(Get(Get(cfg, "generation", EmptyDict), "include_edge_cases", None))
            THEN <<[name |-> TestPrefix \o func.name \o SufEdge, description |-> DescEdge]>>
            ELSE <<>>)
        \o (IF Truthy(Get(Get(cfg, "generation", EmptyDict), "include_error_cases", None))
            THEN <<[name |-> TestPrefix \o func.name \o SufError, description |-> DescError]>>
            ELSE <<>>)

\* analyze_function: the metadata of one function (args are not used by the
\* rendering and are left out)
analyze_function(cfg, func) ==
    [name |-> func.name, line_number |-> func.lineno,
     test_cases |-> generate_test_cases(cfg, func)]

\* the four lines one test case adds to the document, the last one empty
StubLines(test_case) ==
    <<DefKw \o test_case.name \o DefEnd,
      Indent \o TripleQuote \o test_case.description \o TripleQuote,
      Indent \o TodoText,
      Indent \o PassKw,
      EmptyLine>>

RECURSIVE RenderCases(_)
\* the inner loop of generate_test_file over metadata["test_cases"]
RenderCases(cases) ==
    IF cases = <<>> THEN <<>> ELSE StubLines(Head(cases)) \o RenderCases(Tail(cases))

\* the body of the outer loop without the test on the leading underscore
RenderFunction_NoSkip(cfg, func) == RenderCases(analyze_function(cfg, func).test_cases)

\* the body of the outer loop: nothing for a private function
RenderFunction(cfg, func) ==
    IF ~IsPrivate(func.name)
    THEN RenderCases(analyze_function(cfg, func).test_cases)
    ELSE <<>>

RECURSIVE RenderFunctions(_, _)
\* the outer loop of generate_test_file over functions
RenderFunctions(cfg, funcs) ==
    IF funcs = <<>> THEN <<>>
    ELSE RenderFunction(cfg, Head(funcs)) \o RenderFunctions(cfg, Tail(funcs))

\* the header docstring naming the source file, and the import
Header(name) == <<HeaderOpen \o name \o TripleQuote, EmptyLine, ImportLine, EmptyLine>>

\* the document generate_test_file returns for the functions found
Document(cfg, p, funcs) == Header(PathName(p)) \o RenderFunctions(cfg, funcs)

-----------------------------------------------------------------------------
(* ast.parse on a generated document: the part of Python's grammar the      *)
(* documents can fall in (string-literal statements, import, def with a     *)
(* suite of string-literal, comment and pass lines), scanned character by   *)
(* character as the tokenizer scans quotes, backslashes and line ends.      *)
(* Escapes with a payload (\x, \u, \U, \N) are outside the alphabet used.   *)

SyntaxError == -1

Letters ==
    {"a", "b", "c", "d", "e", "f", "g", "h", "i", "j", "k", "l", "m", "n", "o",
     "p", "q", "r", "s", "t", "u", "v", "w", "x", "y", "z", "A", "B", "C", "D",
     "E", "F", "G", "H", "I", "J", "K", "L", "M", "N", "O", "P", "Q", "R", "S",
     "T", "U", "V", "W", "X", "Y", "Z", "_"}

Digits == {"0", "1", "2", "3", "4", "5", "6", "7", "8", "9"}

\* an identifier: a letter or underscore, then letters, digits, underscores
IsIdentifier(s) ==
    /\ s # <<>>
    /\ s[1] \in Letters
    /\ \A k \in 1..Len(s) : s[k] \in Letters \cup Digits
    /\ s \notin {PassKw, <<"d", "e", "f">>, <<"i", "m", "p", "o", "r", "t">>}

\* three quote characters start at column c of line
TripleAt(line, c) == c + 2 <= Len(line) /\ SubSeq(line, c, c + 2) = TripleQuote

\* the first column from c on that holds a quote or a backslash, Len + 1 if none
NextMark(line, c) ==
    IF \A k \in c..Len(line) : line[k] \notin {Q, BS} THEN Len(line) + 1
    ELSE CHOOSE k \in c..Len(line) :
             line[k] \in {Q, BS} /\ \A j \in c..(k - 1) : line[j] \notin {Q, BS}

RECURSIVE ScanStrings(_, _, _, _)
\* A statement of adjacent string literals from column c of line i of L: the
\* index of the line after the statement, or SyntaxError.  mode is "between"
\* (outside a literal), "single" (inside "...") or "triple" (inside """...""").
\* Inside a literal the scan moves from one quote or backslash to the next.
ScanStrings(L, i, c, mode) ==
    LET line == L[i]
        NextLine == IF i < Len(L) THEN ScanStrings(L, i + 1, 1, mode) ELSE SyntaxError
        m == NextMark(line, c)
    IN  CASE mode = "between" /\ c > Len(line) -> i + 1
          [] mode = "between" /\ c <= Len(line) ->
                CASE line[c] = " " -> ScanStrings(L, i, c + 1, mode)
                  [] line[c] = "#" -> i + 1
                  [] line[c] = BS -> (IF c = Len(line) THEN NextLine ELSE SyntaxError)
                  [] line[c] = Q /\ TripleAt(line, c) -> ScanStrings(L, i, c + 3, "triple")
                  [] line[c] = Q /\ ~TripleAt(line, c) -> ScanStrings(L, i, c + 1, "single")
                  [] OTHER -> SyntaxError
          [] mode = "single" /\ m > Len(line) -> SyntaxError
          [] mode = "triple" /\ m > Len(line) -> NextLine
          [] mode # "between" /\ m <= Len(line) ->
                CASE line[m] = BS /\ m = Len(line) -> NextLine
                  [] line[m] = BS /\ m < Len(line) -> ScanStrings(L, i, m + 2, mode)
                  [] line[m] = Q /\ mode = "single" -> ScanStrings(L, i, m + 1, "between")
                  [] line[m] = Q /\ mode = "triple" /\ TripleAt(line, m) ->
                         ScanStrings(L, i, m + 3, "between")
                  [] OTHER -> ScanStrings(L, i, m + 1, mode)

\* the column of the first character of line that is no space, 0 if none
FirstNonSpace(line) ==
    IF \A k \in 1..Len(line) : line[k] = " " THEN 0
    ELSE CHOOSE k \in 1..Len(line) :
             line[k] # " " /\ \A j \in 1..(k - 1) : line[j] = " "

\* a line the tokenizer skips: empty, spaces only, or a comment
IsBlank(line) == FirstNonSpace(line) = 0 \/ line[FirstNonSpace(line)] = "#"

\* a simple statement from column c of line i: the line after it, or SyntaxError
SimpleStmt(L, i, c) ==
    LET rest == Drop(L[i], c - 1)
    IN  IF rest[1] = Q THEN ScanStrings(L, i, c, "between")
        ELSE IF rest = PassKw THEN i + 1
        ELSE IF StartsWith(rest, ImportKw) /\ IsIdentifier(Drop(rest, Len(ImportKw)))
             THEN i + 1
        ELSE SyntaxError

\* "def <identifier>():"
IsDefHeader(line) ==
    /\ StartsWith(line, DefKw)
    /\ EndsWith(line, DefEnd)
    /\ Len(line) > Len(DefKw) + Len(DefEnd)
    /\ IsIdentifier(SubSeq(line, Len(DefKw) + 1, Len(line) - Len(DefEnd)))

\* the first line from i on that the tokenizer does not skip, Len + 1 if none
NextCode(L, i) ==
    IF \A k \in i..Len(L) : IsBlank(L[k]) THEN Len(L) + 1
    ELSE CHOOSE k \in i..Len(L) : ~IsBlank(L[k]) /\ \A j \in i..(k - 1) : IsBlank(L[j])

RECURSIVE Suite(_, _, _)
\* the body of a def from line i: simple statements indented by four spaces,
\* at least one (seen); the line of the first statement after it, or SyntaxError
Suite(L, i, seen) ==
    LET k == NextCode(L, i)
    IN  CASE k > Len(L) -> (IF seen THEN k ELSE SyntaxError)
          [] k <= Len(L) /\ FirstNonSpace(L[k]) = 1 -> (IF seen THEN k ELSE SyntaxError)
          [] k <= Len(L) /\ FirstNonSpace(L[k]) = Len(Indent) + 1 ->
                LET n == SimpleStmt(L, k, Len(Indent) + 1)
                IN  IF n = SyntaxError THEN SyntaxError ELSE Suite(L, n, TRUE)
          [] OTHER -> SyntaxError

\* the statement that starts at column 1 of line k: the line after it, or SyntaxError
Statement(L, k) ==
    IF StartsWith(L[k], DefKw)
    THEN (IF IsDefHeader(L[k]) THEN Suite(L, k + 1, FALSE) ELSE SyntaxError)
    ELSE SimpleStmt(L, k, 1)

RECURSIVE ParseFrom(_, _)
\* the statements of the module from line i on are well formed
ParseFrom(L, i) ==
    LET k == NextCode(L, i)
    IN  CASE k > Len(L) -> TRUE
          [] k <= Len(L) /\ FirstNonSpace(L[k]) # 1 -> FALSE
          [] OTHER -> LET n == Statement(L, k)
                      IN  n # SyntaxError /\ ParseFrom(L, n)

\* ast.parse(text) succeeds
Parses(L) == ParseFrom(L, 1)

-----------------------------------------------------------------------------
(* The analyzer *)

JsonEmptyList == <<"[", "]">>

JsonOpenList == <<"[">>

JsonCloseList == <<"]">>

JsonOpenRecord == <<" ", " ", "{">>

JsonCloseRecord == <<" ", " ", "}">>

JsonFileKey == <<" ", " ", " ", " ", Q, "f", "i", "l", "e", Q, ":", " ">>

JsonLinesOfCode == <<" ", " ", " ", " ", Q, "l", "i", "n", "e", "s", "_", "o", "f", "_", "c", "o", "d", "e", Q, ":", " ", "0", ",">>

JsonComplexity == <<" ", " ", " ", " ", Q, "c", "y", "c", "l", "o", "m", "a", "t", "i", "c", "_", "c", "o", "m", "p", "l", "e", "x", "i", "t", "y", Q, ":", " ", "0", ",">>

JsonIssues == <<" ", " ", " ", " ", Q, "i", "s", "s", "u", "e", "s", Q, ":", " ", "[", "]">>

\* analyze_file reporting a line count instead of the placeholder
analyze_file_CountsLines(filepath) ==
    [file |-> filepath, lines_of_code |-> 1, cyclomatic_complexity |-> 0, issues |-> <<>>]

\* analyze_file: the placeholder record of one file
analyze_file(filepath) ==
    [file |-> filepath, lines_of_code |-> 0, cyclomatic_complexity |-> 0, issues |-> <<>>]

\* fnmatch of a name against "*.py"
MatchesPattern(name) == EndsWith(name, PySuffix)

\* p lies below the directory d, at any depth
Below(p, d) == Len(p) > Len(d) /\ SubSeq(p, 1, Len(d)) = d

\* the paths target.rglob("*.py") yields: every entry below target whose
\* name matches, of whatever kind
rglob(d) == {e.path : e \in {x \in disk : Below(x.path, d) /\ MatchesPattern(PathName(x.path))}}

RECURSIVE Orders(_)
\* the orders in which a directory enumeration can yield the paths of S
Orders(S) ==
    IF S = {} THEN {<<>>}
    ELSE UNION {{<<p>> \o rest : rest \in Orders(S \ {p})} : p \in S}

\* the results list after the loop over target.rglob("*.py"), for one order
AnalyzeAll(order) == [k \in 1..Len(order) |-> analyze_file(PathStr(order[k]))]

RECURSIVE Join(_)
\* the characters of a path string: its segments with "/" between them
Join(segs) ==
    IF Len(segs) = 0 THEN <<>>
    ELSE IF Len(segs) = 1 THEN segs[1]
    ELSE segs[1] \o <<"/">> \o Join(Tail(segs))

RECURSIVE JsonEscape(_)
\* json.dumps of the characters of a string: quote and backslash are escaped
JsonEscape(s) ==
    IF s = <<>> THEN <<>>
    ELSE (IF Head(s) \in {Q, BS} THEN <<BS, Head(s)>> ELSE <<Head(s)>>) \o JsonEscape(Tail(s))

\* the lines json.dumps(..., indent=2) prints for one record
JsonRecord(rec, last) ==
    <<JsonOpenRecord,
      JsonFileKey \o <<Q>> \o JsonEscape(Join(rec.file)) \o <<Q, ",">>,
      JsonLinesOfCode,
      JsonComplexity,
      JsonIssues,
      IF last THEN JsonCloseRecord ELSE JsonCloseRecord \o <<",">> >>

RECURSIVE JsonRecords(_)
JsonRecords(recs) ==
    IF recs = <<>> THEN <<>>
    ELSE JsonRecord(Head(recs), Len(recs) = 1) \o JsonRecords(Tail(recs))

\* json.dumps(results, indent=2): "[]" for the empty list
json_dumps(recs) ==
    IF recs = <<>> THEN <<JsonEmptyList>>
    ELSE <<JsonOpenList>> \o JsonRecords(recs) \o <<JsonCloseList>>

-----------------------------------------------------------------------------
(* The inputs of a run *)

\* the source file names of the model: plain, ending in a quote, ending in a
\* backslash, two quotes, a quote inside
FileNames == {<<"m">>, <<"m", Q>>, <<"m", BS>>, <<Q, Q>>, <<"m", Q, "m">>}

\* the text of an entry that no run reads
NoText == [malformed |-> FALSE, defs |-> <<>>]

\* the names of the entries the analyzer meets: one matches "*.py"
EntryNames == {<<"d">>, <<"a", ".", "p", "y">>}

\* a name no entry has
MissingName == <<"x">>

\* the entries that can be added to the file system fs: below the working
\* directory or below a directory of fs
NewEntries(fs) ==
    {[path |-> Child(d, n), kind |-> k, text |-> NoText] :
         d \in {<<>>} \cup {e.path : e \in {x \in fs : x.kind = "dir"}},
         n \in EntryNames, k \in {"file", "dir"}}

RECURSIVE Disks(_)
\* the file systems of at most n entries, no path held twice
Disks(n) ==
    IF n = 0 THEN {{}}
    ELSE LET S == Disks(n - 1)
         IN  S \cup UNION {
                 {fs \cup {e} : e \in {x \in NewEntries(fs) : \A y \in fs : y.path # x.path}}
                 : fs \in S}

\* the path strings that name p: as it is, with a leading "./", with a
\* trailing "/", with a doubled separator
Spellings(p) ==
    {PathStr(p), <<Dot>> \o p}
        \cup (IF p # <<>> THEN {p \o <<EmptyLine>>} ELSE {})
        \cup (IF Len(p) >= 2 THEN {<<p[1], EmptyLine>> \o Tail(p)} ELSE {})

\* the command lines of an analyzer run over the file system fs: none, one
\* argument naming the working directory, an entry or nothing, and one
\* with a second argument
AnalyzerArgvs(fs) ==
    LET targets == {<<>>, <<MissingName>>} \cup {e.path : e \in fs}
    IN  {<<>>}
            \cup {<<a>> : a \in UNION {Spellings(p) : p \in targets}}
            \cup {<<PathStr(p), <<MissingName>>>> : p \in targets}

InitAnalyzer ==
    /\ tool = "analyzer"
    /\ disk \in Disks(MaxEntries)
    /\ argv \in AnalyzerArgvs(disk)
    /\ config = EmptyDict
    /\ pc = "main"
    /\ path = <<>>

\* the file systems of a generator run: the named file is missing, or holds
\* some text
GeneratorDisks(name) ==
    {{}} \cup {{[path |-> <<name>>, kind |-> "file", text |-> t]} : t \in SourceTexts}

InitGeneratorCli ==
    /\ tool = "test-generator"
    /\ \E name \in FileNames :
           /\ disk \in GeneratorDisks(name)
           /\ argv \in {<<>>, << <<name>> >>, << <<name>>, <<MissingName>> >>}
    /\ config = EmptyDict
    /\ pc = "main"
    /\ path = <<>>

InitGeneratorLibrary ==
    /\ tool = "TestGenerator"
    /\ \E name \in FileNames :
           /\ disk \in GeneratorDisks(name)
           /\ argv = << <<name>> >>
    /\ config \in Configs
    /\ pc = "generate_test_file"
    /\ path = PathOf(argv[1])

Init ==
    /\ \/ InitAnalyzer
       \/ InitGeneratorCli
       \/ InitGeneratorLibrary
    /\ source = NoText
    /\ functions = <<>>
    /\ test_content = <<>>
    /\ results = <<>>
    /\ stdout = <<>>
    /\ error = "none"
    /\ status = "running"

-----------------------------------------------------------------------------
(* test-generator.py *)

\* an exception leaves generate_test_file: the library's caller gets it, the
\* CLI dies of it with a traceback and status 1
Raise(e) ==
    /\ error' = e
    /\ pc' = IF tool = "test-generator" THEN "exit" ELSE "raised"
    /\ status' = IF tool = "test-generator" THEN "1" ELSE status

\* main(), up to the call of generate_test_file
GenMain ==
    /\ tool = "test-generator"
    /\ pc = "main"
    /\ IF Len(argv) < 1
       THEN /\ stdout' = Append(stdout, GenUsageLine)
            /\ status' = "1"
            /\ pc' = "exit"
            /\ UNCHANGED <<path, config>>
       ELSE /\ path' = PathOf(argv[1])
            /\ config' = MainConfig
            /\ pc' = "generate_test_file"
            /\ UNCHANGED <<stdout, status>>
    /\ UNCHANGED <<tool, argv, disk, source, functions, test_content, results, error>>

\* generate_test_file: open(source_path) and f.read()
GenRead ==
    /\ tool \in {"test-generator", "TestGenerator"}
    /\ pc = "generate_test_file"
    /\ IF is_file(path)
       THEN /\ source' = (CHOOSE e \in disk : e.path = path).text
            /\ pc' = "parse"
            /\ UNCHANGED <<error, status>>
       ELSE /\ Raise("FileNotFoundError")
            /\ UNCHANGED source
    /\ UNCHANGED <<tool, argv, disk, config, path, functions, test_content, results, stdout>>

\* generate_test_file: ast.parse(source) and the list of FunctionDef nodes
GenParse ==
    /\ pc = "parse"
    /\ IF source.malformed
       THEN /\ Raise("SyntaxError")
            /\ UNCHANGED functions
       ELSE /\ functions' = FunctionDefs(source.defs)
            /\ pc' = "render"
            /\ UNCHANGED <<error, status>>
    /\ UNCHANGED <<tool, argv, disk, config, path, source, test_content, results, stdout>>

\* generate_test_file: the document is built and returned
GenRender ==
    /\ pc = "render"
    /\ test_content' = Document(config, path, functions)
    /\ pc' = IF tool = "test-generator" THEN "print" ELSE "returned"
    /\ UNCHANGED <<tool, argv, disk, config, path, source, functions, results, stdout,
                   error, status>>

\* a print that stops after the header of the document
Printed_HeaderOnly(content) == SubSeq(content, 1, 2)

\* what print(test_content) writes: the document and the newline print adds
Printed(content) == content \o <<EmptyLine>>

\* main(): print(test_content), and the run ends
GenPrint ==
    /\ pc = "print"
    /\ tool = "test-generator"
    /\ stdout' = stdout \o Printed(test_content)
    /\ status' = "0"
    /\ pc' = "exit"
    /\ UNCHANGED <<tool, argv, disk, config, path, source, functions, test_content,
                   results, error>>

-----------------------------------------------------------------------------
(* analyzer.py *)

\* the test on the argument count off by one
MissingArgument_OffByOne(args) == Len(args) < 2

\* len(sys.argv) < 2: args is sys.argv[1:]
MissingArgument(args) == Len(args) < 1

\* main(), up to the branches on the target
AnMain ==
    /\ tool = "analyzer"
    /\ pc = "main"
    /\ IF MissingArgument(argv)
       THEN /\ stdout' = Append(stdout, AnUsageLine)
            /\ status' = "1"
            /\ pc' = "exit"
            /\ UNCHANGED <<path, results>>
       ELSE /\ path' = PathOf(argv[1])
            /\ results' = <<>>
            /\ pc' = "scan"
            /\ UNCHANGED <<stdout, status>>
    /\ UNCHANGED <<tool, argv, disk, config, source, functions, test_content, error>>

\* the branches on target without the test for a file: whatever is no
\* directory is analyzed as a file
Scan_NoFileTest(target, order) ==
    IF is_dir(target) THEN results \o AnalyzeAll(order)
    ELSE Append(results, analyze_file(PathStr(target)))

\* the results of the branches on target, for one order of enumeration
Scan(target, order) ==
    IF is_file(target) THEN Append(results, analyze_file(PathStr(target)))
    ELSE IF is_dir(target) THEN results \o AnalyzeAll(order)
    ELSE results

\* main(): the file branch, the directory branch, or neither
AnScan ==
    /\ tool = "analyzer"
    /\ pc = "scan"
    /\ \E order \in Orders(rglob(path)) : results' = Scan(path, order)
    /\ pc' = "print"
    /\ UNCHANGED <<tool, argv, disk, config, path, source, functions, test_content,
                   stdout, error, status>>

\* main(): print(json.dumps(results, indent=2)), and the run ends
AnPrint ==
    /\ tool = "analyzer"
    /\ pc = "print"
    /\ stdout' = stdout \o json_dumps(results)
    /\ status' = "0"
    /\ pc' = "exit"
    /\ UNCHANGED <<tool, argv, disk, config, path, source, functions, test_content,
                   results, error>>

Next ==
    \/ GenMain
    \/ GenRead
    \/ GenParse
    \/ GenRender
    \/ GenPrint
    \/ AnMain
    \/ AnScan
    \/ AnPrint

Spec == Init /\ [][Next]_vars

-----------------------------------------------------------------------------
(* What the claims observe *)

\* generate_test_file has returned its document
Rendered ==
    /\ tool \in {"test-generator", "TestGenerator"}
    /\ pc \in {"print", "returned"} \/ (pc = "exit" /\ status = "0")

\* the names of the test functions a document defines, in document order
StubNames(doc) ==
    LET defs == SelectSeq(doc, LAMBDA line : StartsWith(line, DefKw) /\ EndsWith(line, DefEnd))
    IN  [k \in 1..Len(defs) |-> SubSeq(defs[k], Len(DefKw) + 1, Len(defs[k]) - Len(DefEnd))]

\* how often x occurs in the sequence s
Count(s, x) == Cardinality({k \in 1..Len(s) : s[k] = x})

\* the elements of s are pairwise distinct
Distinct(s) == \A j, k \in 1..Len(s) : j # k => s[j] # s[k]

\* the function definitions of the file on disk whose name has no leading
\* underscore, as node numbers
PublicDefs == {i \in 1..Len(source.defs) :
                   source.defs[i].kind = "FunctionDef" /\ source.defs[i].name[1] # "_"}

\* the function definitions of the file on disk with a leading underscore
PrivateDefs == {i \in 1..Len(source.defs) :
                    source.defs[i].kind = "FunctionDef" /\ source.defs[i].name[1] = "_"}

\* the flags of a configuration, as the spec reads them
EdgeEnabled == "generation" \in DOMAIN config /\ config.generation.include_edge_cases = "True"

ErrorEnabled == "generation" \in DOMAIN config /\ config.generation.include_error_cases = "True"

\* the three stub names of a function named f
BasicName(f) == <<"t", "e", "s", "t", "_">> \o f \o <<"_", "b", "a", "s", "i", "c">>

EdgeName(f) == <<"t", "e", "s", "t", "_">> \o f \o <<"_", "e", "d", "g", "e", "_", "c", "a", "s", "e", "s">>

ErrorName(f) == <<"t", "e", "s", "t", "_">> \o f \o <<"_", "e", "r", "r", "o", "r", "_", "h", "a", "n", "d", "l", "i", "n", "g">>

-----------------------------------------------------------------------------
(* Claims about the test generator *)

\* C1: with both flags enabled the document defines exactly three stubs per
\* public function definition of the file, nested ones included: 3 * N stubs,
\* and every stub name occurs as often as there are public definitions f with
\* test_f_basic, test_f_edge_cases or test_f_error_handling equal to it.
C1_ThreeStubsPerPublicFunction ==
    (Rendered /\ EdgeEnabled /\ ErrorEnabled) =>
        LET names == StubNames(test_content)
            Expected(i) == {BasicName(source.defs[i].name), EdgeName(source.defs[i].name),
                            ErrorName(source.defs[i].name)}
        IN  /\ Len(names) = 3 * Cardinality(PublicDefs)
            /\ \A i \in PublicDefs : \A n \in Expected(i) :
                   Count(names, n) = Cardinality({j \in PublicDefs : n \in Expected(j)})
            /\ \A k \in 1..Len(names) : \E i \in PublicDefs : names[k] \in Expected(i)

\* C1 witness: both flags on, two public definitions, one nested in the
\* other or in a class, and six stubs in the document
C1_Witness ==
    /\ Rendered /\ EdgeEnabled /\ ErrorEnabled
    /\ Cardinality(PublicDefs) = 2
    /\ \E i \in PublicDefs : source.defs[i].parent # 0
    /\ Len(StubNames(test_content)) = 6

\* C2: no stub is emitted for a function whose name starts with an
\* underscore, whatever the configuration; when every function definition of
\* the file is private the document is the header docstring, the import and
\* their blank lines, with no test function.
C2_PrivateFunctionsSkipped ==
    Rendered =>
        LET names == StubNames(test_content)
        IN  /\ \A k \in 1..Len(names) : \A i \in PrivateDefs :
                   names[k] \notin {BasicName(source.defs[i].name), EdgeName(source.defs[i].name),
                                    ErrorName(source.defs[i].name)}
            /\ PublicDefs = {} =>
                   /\ names = <<>>
                   /\ Len(test_content) = 4
                   /\ test_content[1] = <<Q, Q, Q, "T", "e", "s", "t", "s", " ", "f", "o", "r", " ">>
                                            \o argv[1][Len(argv[1])] \o <<Q, Q, Q>>
                   /\ test_content[2] = <<>>
                   /\ test_content[3] = <<"i", "m", "p", "o", "r", "t", " ", "p", "y", "t", "e", "s", "t">>
                   /\ test_content[4] = <<>>

\* C2 witness: a file whose only function definitions are private ones, a
\* flag enabled, and a document of four lines
C2_Witness ==
    /\ Rendered /\ EdgeEnabled
    /\ PrivateDefs # {} /\ PublicDefs = {}
    /\ Len(test_content) = 4

\* C3: for every configuration the stubs are, function by function in the
\* order of discovery, test_f_basic, then test_f_edge_cases iff
\* include_edge_cases is enabled, then test_f_error_handling iff
\* include_error_cases is enabled; with both disabled or no "generation"
\* section there are exactly N stubs, all basic.
C3_CasesFollowFlags ==
    Rendered =>
        LET names == StubNames(test_content)
            public == SelectSeq(functions, LAMBDA f : f.name[1] # "_")
            per == 1 + (IF EdgeEnabled THEN 1 ELSE 0) + (IF ErrorEnabled THEN 1 ELSE 0)
        IN  /\ Len(public) = Cardinality(PublicDefs)
            /\ Len(names) = per * Len(public)
            /\ \A k \in 1..Len(public) :
                   /\ names[per * (k - 1) + 1] = BasicName(public[k].name)
                   /\ EdgeEnabled => names[per * (k - 1) + 2] = EdgeName(public[k].name)
                   /\ ErrorEnabled => names[per * k] = ErrorName(public[k].name)
            /\ (~EdgeEnabled /\ ~ErrorEnabled) =>
                   /\ Len(names) = Cardinality(PublicDefs)
                   /\ \A k \in 1..Len(names) : names[k] = BasicName(public[k].name)

\* C3 witness: edge cases disabled, error cases enabled, two public functions
\* and four stubs
C3_Witness ==
    /\ Rendered /\ ~EdgeEnabled /\ ErrorEnabled
    /\ Cardinality(PublicDefs) = 2
    /\ Len(StubNames(test_content)) = 4

\* C4: every document generate_test_file returns parses as Python source.
C4_GeneratedDocumentParses == Rendered => Parses(test_content)

\* C8: a source that cannot be parsed ends the run with an error, status 1
\* and nothing on standard output; at every point of every run standard
\* output holds nothing, the usage line, or the whole document (with the
\* newline print adds), the last only after a successful end.
C8_NoPartialOutput ==
    tool = "test-generator" =>
        /\ error = "SyntaxError" => (pc = "exit" /\ status = "1" /\ stdout = <<>>)
        /\ \/ stdout = <<>>
           \/ Len(argv) = 0 /\ stdout = <<GenUsageLine>>
           \/ /\ pc = "exit" /\ status = "0"
              /\ stdout = test_content \o <<EmptyLine>>
              /\ Len(test_content) = 4 + 15 * Cardinality(PublicDefs)

\* C8 witness: the CLI run on a malformed source has ended, nothing printed
C8_Witness ==
    /\ tool = "test-generator" /\ pc = "exit"
    /\ source.malformed /\ error = "SyntaxError"
    /\ stdout = <<>>

\* C10 as claimed: the stub names of a document are pairwise distinct.
C10_StubNamesDistinct == Rendered => Distinct(StubNames(test_content))

\* C10 amended: the stub names of a document are pairwise distinct exactly
\* when no two public function definitions of the file share a name.
C10_DistinctIffFunctionNamesDistinct ==
    Rendered =>
        (Distinct(StubNames(test_content))
            <=> \A i, j \in PublicDefs : i # j => source.defs[i].name # source.defs[j].name)

\* C10 witness: two public functions of different names, both flags on, and
\* six distinct stub names
C10_Witness ==
    /\ Rendered /\ EdgeEnabled /\ ErrorEnabled
    /\ \E i, j \in PublicDefs : source.defs[i].name # source.defs[j].name
    /\ Len(StubNames(test_content)) = 6
    /\ Distinct(StubNames(test_content))

-----------------------------------------------------------------------------
(* Claims about the analyzer, and about both command lines *)

\* the entry the path argument names: its segments without the empty ones
\* and the "." ones
Target == SelectSeq(argv[1], LAMBDA seg : seg # <<>> /\ seg # <<".">>)

TargetIsFile == \E e \in disk : e.path = Target /\ e.kind = "file"

TargetIsDir == Target = <<>> \/ \E e \in disk : e.path = Target /\ e.kind = "dir"

\* the name ends in ".py"
IsPyName(name) == Len(name) >= 3 /\ SubSeq(name, Len(name) - 2, Len(name)) = <<".", "p", "y">>

\* the files below the target, at any depth, whose name matches the pattern
MatchingFiles ==
    {e.path : e \in {x \in disk : /\ x.kind = "file"
                                  /\ Len(x.path) > Len(Target)
                                  /\ SubSeq(x.path, 1, Len(Target)) = Target
                                  /\ IsPyName(x.path[Len(x.path)])}}

\* a run of the analyzer with a path argument has ended
AnalyzerDone == tool = "analyzer" /\ pc = "exit" /\ Len(argv) >= 1

\* every record holds the placeholder values
AllPlaceholders ==
    \A k \in 1..Len(results) :
        /\ results[k].lines_of_code = 0
        /\ results[k].cyclomatic_complexity = 0
        /\ results[k].issues = <<>>

\* C5: for a directory target the records are those of the matching files
\* below it, one each and nothing else, all with the placeholder values.
C5_OneRecordPerMatchingFile ==
    (AnalyzerDone /\ TargetIsDir /\ ~TargetIsFile) =>
        /\ Len(results) = Cardinality(MatchingFiles)
        /\ {results[k].file : k \in 1..Len(results)} = MatchingFiles
        /\ AllPlaceholders

\* C6: a path argument that names neither a file nor a directory gives no
\* record, "[]" on standard output, no error and exit status 0.
C6_MissingTargetGivesEmptyArray ==
    (AnalyzerDone /\ ~TargetIsFile /\ ~TargetIsDir) =>
        /\ results = <<>>
        /\ stdout = << <<"[", "]">> >>
        /\ error = "none"
        /\ status = "0"

\* C6 witness: a run on a path that names nothing has ended with "[]" printed
C6_Witness ==
    /\ AnalyzerDone
    /\ \A e \in disk : e.path # Target
    /\ Target # <<>>
    /\ stdout = << <<"[", "]">> >>

\* C7: without a path argument either command line prints its usage line
\* and exits with status 1, having read no file and printed no result; with
\* a path argument the analyzer never exits with a status other than 0.
C7_UsageAndExitStatus ==
    /\ (tool \in {"analyzer", "test-generator"} /\ Len(argv) = 0 /\ pc # "main") =>
           /\ pc = "exit"
           /\ status = "1"
           /\ stdout = <<IF tool = "analyzer" THEN AnUsageLine ELSE GenUsageLine>>
           /\ source = NoText /\ functions = <<>> /\ test_content = <<>> /\ results = <<>>
    /\ (tool = "analyzer" /\ Len(argv) >= 1) =>
           /\ status \in {"running", "0"}
           /\ pc = "exit" => status = "0"
           /\ stdout # <<AnUsageLine>>

\* C7 witness: the analyzer, run without arguments, has ended with status 1
C7_Witness ==
    /\ tool = "analyzer" /\ Len(argv) = 0
    /\ pc = "exit" /\ status = "1"
    /\ stdout = <<AnUsageLine>>

\* C9 as claimed: for a file target the result is one record whose file is
\* the path string given, with the placeholder values.
C9_FileIsGivenPathString ==
    (AnalyzerDone /\ TargetIsFile) =>
        /\ Len(results) = 1
        /\ results[1].file = argv[1]
        /\ AllPlaceholders

\* C9 amended: for a file target, whatever its name, the result is one
\* record whose file is the path string given without its empty and "."
\* segments (the string of the Path object), with the placeholder values.
C9_FileIsNormalizedPathString ==
    (AnalyzerDone /\ TargetIsFile) =>
        /\ Len(results) = 1
        /\ results[1].file = Target
        /\ AllPlaceholders

\* C9 witness: a file named with a "." or an empty segment has been
\* analyzed, and its record holds the shorter string
C9_Witness ==
    /\ AnalyzerDone /\ TargetIsFile
    /\ argv[1] # Target
    /\ Len(results) = 1 /\ results[1].file = Target

=============================================================================
